---- MODULE Spec2Model ----
(***************************************************************************)
(* bunnai: conventional-commit message generator.                          *)
(*                                                                         *)
(* The module models                                                       *)
(*   - the configuration store of src/src/config.ts (readConfigFile,       *)
(*     validateKeys, cleanUpTemplates, setConfigs), the configuration menu *)
(*     showConfigUI and the model catalogs getOllamaModels / getModels;    *)
(*   - the generator pipeline run() of src/src/run.ts;                     *)
(*   - two concurrent setConfigs invocations racing on the file.           *)
(*                                                                         *)
(* Text (template files, diffs, provider replies) is a sequence of         *)
(* one-character strings.  JavaScript objects that the code shares by      *)
(* reference (DEFAULT_CONFIG and its templates object) are modelled with   *)
(* their identity: see `config`.                                           *)
(***************************************************************************)
EXTENDS Integers, Sequences, FiniteSets, TLC

VARIABLES
    \* ---- configuration store, one process -----------------------------
    file,            \* the JSON file at configPath
    exists,          \* the template paths that exist on disk
    DEFAULT_CONFIG,  \* the module-level object of config.ts, as it is NOW
    config,          \* the configuration object the caller / the menu holds
    uiPc,            \* position of showConfigUI
    lastOp,          \* the last operation and how it ended
    options,         \* the option list last computed for a model selection
    fetchOutcome,    \* what the last GET {endpoint}/api/tags produced
    \* ---- two concurrent setConfigs invocations ------------------------
    racePc, raceConfig, raceKvs, lastWrite,
    \* ---- run() --------------------------------------------------------
    pc,                \* position of run(); "exited" after process.exit
    opts,              \* the call's arguments: options.verbose, templateName
    templateFilePath,  \* run.ts:29
    template,          \* run.ts:64, the text of the template file
    diff,              \* run.ts:74, the staged diff
    rendered_template, \* run.ts:84
    response,          \* what the provider call produced
    stdout,            \* what console.log and console.debug wrote
    stderr,            \* what console.error wrote
    exitCode,          \* -1 while the process has not ended
    providerCalls      \* the chat requests sent

cfgVars  == <<file, exists, DEFAULT_CONFIG, config, uiPc, lastOp, options,
              fetchOutcome>>
raceVars == <<racePc, raceConfig, raceKvs, lastWrite>>
runVars  == <<pc, opts, templateFilePath, template, diff, rendered_template,
              response, stdout, stderr, exitCode, providerCalls>>
vars     == <<cfgVars, raceVars, runVars>>

(***************************************************************************)
(* Bounds of the model.                                                    *)
(***************************************************************************)
MaxDiffLen == 3        \* characters of a diff in the rendering check
MaxPieces == 3         \* pieces a template text is assembled from
MaxEntries == 2        \* entries of the models and tags arrays together
MaxKeyValues == 2      \* entries of one setConfigs call
MaxRunDiffLen == 2     \* characters of a staged diff in run()

(***************************************************************************)
(* Text.                                                                   *)
(***************************************************************************)
RECURSIVE SeqsUpTo(_, _)
SeqsUpTo(S, n) ==
    IF n = 0 THEN {<<>>}
    ELSE LET shorter == SeqsUpTo(S, n - 1)
         IN  shorter \cup {Append(s, x) : s \in shorter, x \in S}

\* The placeholder of run.ts:84, character by character.
Token == <<"{", "{", "d", "i", "f", "f", "}", "}">>

IsWhiteSpace(c) == c \in {" ", "\n", "\t"}

\* String.prototype.trim
RECURSIVE TrimStart(_)
TrimStart(s) ==
    IF s # <<>> /\ IsWhiteSpace(Head(s)) THEN TrimStart(Tail(s)) ELSE s

RECURSIVE TrimEnd(_)
TrimEnd(s) ==
    IF s # <<>> /\ IsWhiteSpace(s[Len(s)])
    THEN TrimEnd(SubSeq(s, 1, Len(s) - 1)) ELSE s

Trim(s) == TrimEnd(TrimStart(s))

\* String.prototype.indexOf, 1-based; 0 when searchString does not occur.
IndexOf(str, searchString) ==
    LET n == Len(searchString)
        hits == {i \in 1..(Len(str) - n + 1) :
                    SubSeq(str, i, i + n - 1) = searchString}
    IN  IF hits = {} THEN 0
        ELSE CHOOSE i \in hits : \A j \in hits : i <= j

\* Two characters, by name: U+0060 and U+0027.
Backtick == "<backtick>"

Apostrophe == "<apostrophe>"

\* GetSubstitution of ECMAScript for a string pattern (no captures, no named
\* groups): in the replacement text "$$" is "$", "$&" the matched text, "$"
\* with a backtick the text before the match, "$" with an apostrophe the
\* text after it; any other "$" is kept.
RECURSIVE GetSubstitution(_, _, _, _)
GetSubstitution(matched, before, after, replacement) ==
    IF replacement = <<>> THEN <<>>
    ELSE IF Head(replacement) = "$" /\ Len(replacement) >= 2
              /\ replacement[2] \in {"$", "&", Backtick, Apostrophe}
         THEN (CASE replacement[2] = "$" -> <<"$">>
                 [] replacement[2] = "&" -> matched
                 [] replacement[2] = Backtick -> before
                 [] replacement[2] = Apostrophe -> after)
              \o GetSubstitution(matched, before, after,
                                 SubSeq(replacement, 3, Len(replacement)))
         ELSE <<Head(replacement)>>
              \o GetSubstitution(matched, before, after, Tail(replacement))

\* String.prototype.replace(searchValue, replaceValue) with two strings: the
\* first occurrence only, the replacement expanded by GetSubstitution.
StringReplace(str, searchValue, replaceValue) ==
    LET pos == IndexOf(str, searchValue)
        before == SubSeq(str, 1, pos - 1)
        after == SubSeq(str, pos + Len(searchValue), Len(str))
    IN  IF pos = 0 THEN str
        ELSE before
             \o GetSubstitution(searchValue, before, after, replaceValue)
             \o after

\* run.ts:84
RenderTemplate(templateText, diffText) ==
    StringReplace(templateText, Token, diffText)

(***************************************************************************)
(* JavaScript values.                                                      *)
(***************************************************************************)
\* `undefined` (an absent property); also a prompt's cancel symbol, which
\* JSON.stringify drops from an object just as it drops undefined.
Undef == "<undefined>"

\* ToBoolean of a string-or-undefined value.
Truthy(v) == v \notin {Undef, ""}

\* a || b
Or(a, b) == IF Truthy(a) THEN a ELSE b

(***************************************************************************)
(* ModelCatalog: getOllamaModels (config.ts) and its copy main (llama.ts). *)
(*                                                                         *)
(* What GET {endpoint}/api/tags produces:                                  *)
(*   networkError  fetch rejects                                           *)
(*   notOk         a response whose status is not 2xx                      *)
(*   badJson       response.json() rejects                                 *)
(*   nullBody      the body is the JSON value null                         *)
(*   body          a JSON object; `models` and `tags` are each undefined,  *)
(*                 a non-array value, or an array of entries; an entry is  *)
(*                 null or an object with optional name, model and tag.    *)
(***************************************************************************)
EntryValues == [name : {Undef, "", "n1"}, model : {Undef, "m1"},
                tag : {Undef, "t1"}, isNull : {FALSE}]

NullEntry == [name |-> Undef, model |-> Undef, tag |-> Undef, isNull |-> TRUE]

Entries == EntryValues \cup {NullEntry}

NoArray == {[kind |-> "undefined", items |-> <<>>],
            [kind |-> "notArray", items |-> <<>>]}

Arrays(n) == {[kind |-> "array", items |-> s] : s \in SeqsUpTo(Entries, n)}

\* The JSON objects whose two arrays hold at most n entries together.
Bodies(n) ==
    UNION {{[kind |-> "body", models |-> m, tags |-> t] :
               t \in NoArray \cup Arrays(n - Len(m.items))} :
           m \in NoArray \cup Arrays(n)}

NoBody == [kind |-> "undefined", items |-> <<>>]

Failures ==
    {[kind |-> k, models |-> NoBody, tags |-> NoBody] :
        k \in {"networkError", "notOk", "badJson", "nullBody"}}

CatalogOutcomes == Failures \cup Bodies(MaxEntries)

\* Array.prototype.filter(Boolean) on a sequence of strings
FilterBoolean(s) == SelectSeq(s, Truthy)

\* A faulty variant: the fallback field is read first.
NormalizeModelEntryFallbackFirst(m) == Or(Or(m.model, m.name), "")

\* config.ts:329  m.name || m.model || ""
NormalizeModelEntry(m) == Or(Or(m.name, m.model), "")

\* config.ts:334  t.name || t.tag || ""
NormalizeTagEntry(t) == Or(Or(t.name, t.tag), "")

\* Reading a property of null throws a TypeError.
Throws(items) == \E i \in 1..Len(items) : items[i].isNull

\* config.ts:321-342.  Every throw inside the try (fetch rejecting, the
\* explicit throw on !response.ok, response.json() rejecting, a property
\* read on null) is caught and answered with [].
getOllamaModels(outcome) ==
    IF outcome.kind # "body" THEN <<>>
    ELSE IF outcome.models.kind = "array"
         THEN IF Throws(outcome.models.items) THEN <<>>
              ELSE FilterBoolean([i \in 1..Len(outcome.models.items) |->
                       NormalizeModelEntry(outcome.models.items[i])])
    ELSE IF outcome.tags.kind = "array"
         THEN IF Throws(outcome.tags.items) THEN <<>>
              ELSE FilterBoolean([i \in 1..Len(outcome.tags.items) |->
                       NormalizeTagEntry(outcome.tags.items[i])])
    ELSE <<>>

\* llama.ts:1-22, the same function under the name main.
main(outcome) ==
    IF outcome.kind # "body" THEN <<>>
    ELSE IF outcome.models.kind = "array"
         THEN IF Throws(outcome.models.items) THEN <<>>
              ELSE FilterBoolean([i \in 1..Len(outcome.models.items) |->
                       Or(Or(outcome.models.items[i].name,
                             outcome.models.items[i].model), "")])
    ELSE IF outcome.tags.kind = "array"
         THEN IF Throws(outcome.tags.items) THEN <<>>
              ELSE FilterBoolean([i \in 1..Len(outcome.tags.items) |->
                       Or(Or(outcome.tags.items[i].name,
                             outcome.tags.items[i].tag), "")])
    ELSE <<>>


(***************************************************************************)
(* ConfigStore.                                                            *)
(*                                                                         *)
(* A configuration value is a record of the six fields of interface Config *)
(* (config.ts:70-77); templates is a function from template names to       *)
(* paths.                                                                  *)
(***************************************************************************)
ScalarKeys == {"provider", "OPENAI_API_KEY", "model", "ollama_endpoint",
               "ollama_model"}

DefaultTemplatePath == "~/.bunnai-template"

\* The names typed at the "New template name" prompt.
NewTemplateNames == {"feat"}

\* config.ts:285-288  path.join(os.homedir(), `.bunnai-template-${name}`)
NewTemplatePath(name) ==
    CASE name = "feat" -> "~/.bunnai-template-feat"
      [] name = "default" -> "~/.bunnai-template-default"

Paths ==
    {DefaultTemplatePath} \cup {NewTemplatePath(n) : n \in NewTemplateNames}

\* config.ts:79-88, the object literal: DEFAULT_CONFIG when a process starts.
HardcodedDefaults ==
    [provider |-> "openai",
     OPENAI_API_KEY |-> "",
     model |-> "gpt-4-0125-preview",
     ollama_endpoint |-> "http://localhost:11434",
     ollama_model |-> "gemma3:4b",
     templates |-> [n \in {"default"} |-> DefaultTemplatePath]]

\* The file at configPath: absent, not JSON, or a JSON object.  A scalar key
\* the object lacks is Undef; hasTemplates tells whether it has `templates`.
AbsentFile ==
    [state |-> "absent", fields |-> [k \in ScalarKeys |-> Undef],
     hasTemplates |-> FALSE, templates |-> <<>>]

CorruptFile == [AbsentFile EXCEPT !.state = "corrupt"]

JsonFile(fields, hasTemplates, templates) ==
    [state |-> "json", fields |-> fields, hasTemplates |-> hasTemplates,
     templates |-> templates]

\* JSON.stringify(config): own enumerable properties; a property whose value
\* is undefined or a symbol is left out.
Stringify(obj) ==
    JsonFile([k \in ScalarKeys |-> obj[k]], TRUE, obj.templates)

\* config.ts:96-102  { ...DEFAULT_CONFIG, ...JSON.parse(text) } by value: the
\* shallow merge, with the file's value winning for every key it has.
Merge(defaults, f) ==
    [k \in ScalarKeys \cup {"templates"} |->
        IF k = "templates"
        THEN IF f.hasTemplates THEN f.templates ELSE defaults.templates
        ELSE IF f.fields[k] # Undef THEN f.fields[k] ELSE defaults[k]]

(***************************************************************************)
(* Object identity.  `config` is a handle on the object the caller holds:  *)
(*   kind = "none"            nothing held yet                             *)
(*   kind = "DEFAULT_CONFIG"  the object IS DEFAULT_CONFIG (readConfigFile *)
(*                            returns it when the file is absent)          *)
(*   kind = "object"          a fresh object from the spread; its scalar   *)
(*                            fields are in `fields`; its templates is     *)
(*                            either the very object DEFAULT_CONFIG        *)
(*                            .templates refers to (sharesTemplates: the   *)
(*                            spread copies the reference when the file    *)
(*                            has no templates key) or an object of its    *)
(*                            own, whose value is in `templates`.          *)
(***************************************************************************)
NoConfig ==
    [kind |-> "none", fields |-> [k \in ScalarKeys |-> Undef],
     sharesTemplates |-> FALSE, templates |-> <<>>]

TheDefaultConfig == [NoConfig EXCEPT !.kind = "DEFAULT_CONFIG"]

FreshConfig(value, shares) ==
    [kind |-> "object", fields |-> [k \in ScalarKeys |-> value[k]],
     sharesTemplates |-> shares,
     templates |-> IF shares THEN <<>> ELSE value.templates]

\* The templates object a handle reaches, by value.
TemplatesOf(c, defaults) ==
    IF c.kind = "DEFAULT_CONFIG" \/ (c.kind = "object" /\ c.sharesTemplates)
    THEN defaults.templates
    ELSE c.templates

\* The configuration a handle reaches, by value.
ValueOf(c, defaults) ==
    IF c.kind = "DEFAULT_CONFIG" THEN defaults
    ELSE [k \in ScalarKeys \cup {"templates"} |->
            IF k = "templates" THEN TemplatesOf(c, defaults)
            ELSE c.fields[k]]

\* config.ts:90-103, for a file that is absent or parses (JSON.parse throws
\* on the rest: see the actions).
readConfigFile(f, defaults) ==
    IF f.state = "absent" THEN TheDefaultConfig
    ELSE FreshConfig(Merge(defaults, f), ~f.hasTemplates)

\* config.ts:106  Object.keys(DEFAULT_CONFIG)
configKeys == ScalarKeys \cup {"templates"}

\* config.ts:105-113: throws at the first key that is no configuration key.
validateKeys(keys) ==
    LET bad == {i \in 1..Len(keys) : keys[i] \notin configKeys}
    IN  IF bad = {} THEN [ok |-> TRUE, key |-> Undef]
        ELSE [ok |-> FALSE,
              key |-> keys[CHOOSE i \in bad : \A j \in bad : i <= j]]

\* config.ts:116-122: what the loop leaves of the templates object.
cleanUpTemplates(templates, onDisk) ==
    [n \in {m \in DOMAIN templates : templates[m] \in onDisk} |->
        templates[n]]

\* One entry of a setConfigs call.  For key "templates" the value is an
\* object: the very templates object of the held configuration (byRef, as in
\* config.ts:295) or a fresh one with the value `map`.
Entry(key, value) ==
    [key |-> key, value |-> value, byRef |-> FALSE, map |-> <<>>]

TemplatesLiteral(map) ==
    [key |-> "templates", value |-> Undef, byRef |-> FALSE, map |-> map]

TemplatesOfHeld ==
    [key |-> "templates", value |-> Undef, byRef |-> TRUE, map |-> <<>>]

\* config.ts:135  config[key] = value, by value.
Assign(obj, kv, heldTemplates) ==
    IF kv.key = "templates"
    THEN [obj EXCEPT !.templates =
                        IF kv.byRef THEN heldTemplates ELSE kv.map]
    ELSE IF kv.key \in ScalarKeys THEN [obj EXCEPT ![kv.key] = kv.value]
    ELSE obj     \* an own property no reader of the model looks at

\* config.ts:133-136
RECURSIVE AssignAll(_, _, _)
AssignAll(obj, kvs, heldTemplates) ==
    IF kvs = <<>> THEN obj
    ELSE AssignAll(Assign(obj, Head(kvs), heldTemplates), Tail(kvs),
                   heldTemplates)

Keys(kvs) == [i \in 1..Len(kvs) |-> kvs[i].key]

\* The last entry of kvs that assigns templates, or 0.
LastTemplatesEntry(kvs) ==
    LET at == {i \in 1..Len(kvs) : kvs[i].key = "templates"}
    IN  IF at = {} THEN 0 ELSE CHOOSE i \in at : \A j \in at : j <= i


\* A faulty variant: the entries are applied and persisted before the keys are
\* validated.
setConfigsValidateLast(f, defaults, held, kvs) ==
    IF f.state = "corrupt"
    THEN [err |-> "SyntaxError", key |-> Undef, file |-> f,
          defaults |-> defaults, held |-> held]
    ELSE LET tmp == readConfigFile(f, defaults)
             after == AssignAll(ValueOf(tmp, defaults), kvs,
                                TemplatesOf(held, defaults))
             v == validateKeys(Keys(kvs))
         IN  [err |-> IF v.ok THEN "" ELSE "Invalid config property",
              key |-> v.key, file |-> Stringify(after),
              defaults |-> IF tmp.kind = "DEFAULT_CONFIG" THEN after
                           ELSE defaults,
              held |-> held]

\* config.ts:126-139.  The result names the error thrown ("" for none, with
\* the offending key), the file afterwards, DEFAULT_CONFIG afterwards and the
\* caller's handle afterwards.  When the file is absent the object mutated IS
\* DEFAULT_CONFIG; assigning its templates re-points DEFAULT_CONFIG.templates
\* at the assigned object, which changes what the caller's handle shares.
setConfigs(f, defaults, held, kvs) ==
    IF f.state = "corrupt"
    THEN [err |-> "SyntaxError", key |-> Undef, file |-> f,
          defaults |-> defaults, held |-> held]
    ELSE LET v == validateKeys(Keys(kvs))
             tmp == readConfigFile(f, defaults)
             after == AssignAll(ValueOf(tmp, defaults), kvs,
                                TemplatesOf(held, defaults))
             last == LastTemplatesEntry(kvs)
         IN  IF ~v.ok
             THEN [err |-> "Invalid config property", key |-> v.key,
                   file |-> f, defaults |-> defaults, held |-> held]
             ELSE [err |-> "", key |-> Undef, file |-> Stringify(after),
                   defaults |-> IF tmp.kind = "DEFAULT_CONFIG" THEN after
                                ELSE defaults,
                   held |->
                     IF tmp.kind = "DEFAULT_CONFIG" /\ held.kind = "object"
                        /\ last # 0
                     THEN IF kvs[last].byRef
                          THEN [held EXCEPT !.sharesTemplates = TRUE,
                                            !.templates = <<>>]
                          ELSE IF held.sharesTemplates
                          THEN [held EXCEPT !.sharesTemplates = FALSE,
                                            !.templates = defaults.templates]
                          ELSE held
                     ELSE held]

\* What the cloud provider's model listing produces: a rejection or the ids.
CloudOutcomes ==
    {[kind |-> "error", ids |-> <<>>], [kind |-> "list", ids |-> <<>>],
     [kind |-> "list", ids |-> <<"gpt-4o">>]}

\* config.ts:344-360.  err is the message of the error thrown, "" for none.
getModels(cfg, outcome, cloud) ==
    IF cfg.provider = "ollama"
    THEN LET models == getOllamaModels(outcome)
         IN  [err |-> "",
              list |-> IF Len(models) > 0 THEN models
                       ELSE <<Or(cfg.ollama_model, "gemma3:4b")>>]
    ELSE IF ~Truthy(cfg.OPENAI_API_KEY)
         THEN [err |-> "OPENAI_API_KEY is not set", list |-> <<>>]
    ELSE IF cloud.kind = "error"
         THEN [err |-> "models.list failed", list |-> <<>>]
    ELSE [err |-> "", list |-> cloud.ids]

Range(s) == {s[i] : i \in 1..Len(s)}

\* What a @clack select over `list` resolves to: one of the options; over an
\* empty list only the cancel symbol is left.
SelectFrom(list) == IF list = <<>> THEN {Undef} ELSE Range(list)

(***************************************************************************)
(* The states the other specifications leave untouched.                    *)
(***************************************************************************)
Op(name) == [op |-> name, err |-> "", key |-> Undef, kvs |-> <<>>]

Failed(name, err, key, kvs) ==
    [op |-> name, err |-> err, key |-> key, kvs |-> kvs]

NoOutcome == [kind |-> "none", models |-> NoBody, tags |-> NoBody]

\* What an invocation has loaded: the object, and who had written the file
\* last at that moment (0: nobody yet).
NotLoaded == [obj |-> HardcodedDefaults, after |-> 0]

RaceIdle ==
    /\ racePc = <<"idle", "idle">>
    /\ raceConfig = <<NotLoaded, NotLoaded>>
    /\ raceKvs = <<<<>>, <<>>>>
    /\ lastWrite = [by |-> 0, obj |-> HardcodedDefaults]

NoOptions == [verbose |-> FALSE, templateName |-> ""]

\* A text not read or computed yet.
NotYet == <<Undef>>

NoResponse == [kind |-> "none", content |-> <<>>]

RunIdle ==
    /\ pc = "idle"
    /\ opts = NoOptions
    /\ templateFilePath = Undef
    /\ template = NotYet
    /\ diff = NotYet
    /\ rendered_template = NotYet
    /\ response = NoResponse
    /\ stdout = <<>>
    /\ stderr = <<>>
    /\ exitCode = -1
    /\ providerCalls = <<>>

(***************************************************************************)
(* Specification Spec: the configuration store and the configuration menu  *)
(* in one process after another.                                           *)
(***************************************************************************)
InitialFiles ==
    {AbsentFile, CorruptFile,
     JsonFile([AbsentFile.fields EXCEPT !.model = "gpt-4o"], FALSE, <<>>)}

Init ==
    /\ file \in InitialFiles
    /\ exists \in SUBSET {DefaultTemplatePath, NewTemplatePath("feat")}
    /\ DEFAULT_CONFIG = HardcodedDefaults
    /\ config = NoConfig
    /\ uiPc = "idle"
    /\ lastOp = Op("start")
    /\ options = <<>>
    /\ fetchOutcome = NoOutcome
    /\ RaceIdle
    /\ RunIdle

\* A caller (run.ts:24, or any importer of config.ts) loads the
\* configuration and keeps the object.
Load ==
    /\ uiPc = "idle"
    /\ IF file.state = "corrupt"
       THEN /\ lastOp' = Failed("readConfigFile", "SyntaxError", Undef, <<>>)
            /\ UNCHANGED config
       ELSE /\ lastOp' = Op("readConfigFile")
            /\ config' = readConfigFile(file, DEFAULT_CONFIG)
    /\ UNCHANGED <<file, exists, DEFAULT_CONFIG, uiPc, options, fetchOutcome>>
    /\ UNCHANGED <<raceVars, runVars>>

\* The mutation cleanUpTemplates(c) does to the object c.templates, which may
\* be the templates object of DEFAULT_CONFIG.
PruneHeld(c) ==
    IF c.kind = "DEFAULT_CONFIG" \/ c.sharesTemplates
    THEN /\ DEFAULT_CONFIG' =
              [DEFAULT_CONFIG EXCEPT !.templates =
                  cleanUpTemplates(DEFAULT_CONFIG.templates, exists)]
         /\ config' = c
    ELSE /\ config' =
              [c EXCEPT !.templates = cleanUpTemplates(c.templates, exists)]
         /\ UNCHANGED DEFAULT_CONFIG

\* A caller prunes the configuration object it holds.
Prune ==
    /\ uiPc = "idle"
    /\ config.kind # "none"
    /\ PruneHeld(config)
    /\ lastOp' = Op("cleanUpTemplates")
    /\ UNCHANGED <<file, exists, uiPc, options, fetchOutcome>>
    /\ UNCHANGED <<raceVars, runVars>>

\* The entries a caller of the exported setConfigs passes.
EntryPool ==
    {Entry("provider", "ollama"),
     TemplatesLiteral([n \in {"default", "feat"} |->
                          IF n = "default" THEN DefaultTemplatePath
                          ELSE NewTemplatePath(n)]),
     Entry("bogus", "x"), Entry("colour", "x")}

SetConfigsEffect(name, kvs) ==
    LET r == setConfigs(file, DEFAULT_CONFIG, config, kvs)
    IN  /\ file' = r.file
        /\ DEFAULT_CONFIG' = r.defaults
        /\ config' = r.held
        /\ lastOp' = Failed(name, r.err, r.key, kvs)

SetConfigs ==
    /\ uiPc = "idle"
    /\ \E kvs \in SeqsUpTo(EntryPool, MaxKeyValues) :
           SetConfigsEffect("setConfigs", kvs)
    /\ UNCHANGED <<exists, uiPc, options, fetchOutcome>>
    /\ UNCHANGED <<raceVars, runVars>>


(***************************************************************************)
(* showConfigUI, config.ts:141-319.  Every menu choice is a string, so the *)
(* test at line 310 always ends the process: the recursive call at line    *)
(* 314 is never reached.  An error thrown inside the try is printed by the *)
(* catch at line 316 and the function returns, which ends the process too. *)
(***************************************************************************)
\* config.ts:143-186: load, prune, show the menu.
UIOpen ==
    /\ uiPc = "idle"
    /\ IF file.state = "corrupt"
       THEN /\ lastOp' = Failed("showConfigUI", "SyntaxError", Undef, <<>>)
            /\ uiPc' = "exited"
            /\ UNCHANGED <<config, DEFAULT_CONFIG>>
       ELSE /\ PruneHeld(readConfigFile(file, DEFAULT_CONFIG))
            /\ lastOp' = Op("showConfigUI")
            /\ uiPc' = "menu"
    /\ UNCHANGED <<file, exists, options, fetchOutcome>>
    /\ UNCHANGED <<raceVars, runVars>>

\* config.ts:188-193
UICancel ==
    /\ uiPc = "menu"
    /\ uiPc' = "exited"
    /\ lastOp' = Op("cancel")
    /\ UNCHANGED <<file, exists, DEFAULT_CONFIG, config, options,
                   fetchOutcome>>
    /\ UNCHANGED <<raceVars, runVars>>

\* A branch that prompts for one value and persists it.
UISet(key, values) ==
    /\ uiPc = "menu"
    /\ \E value \in values : SetConfigsEffect(key, <<Entry(key, value)>>)
    /\ uiPc' = "exited"
    /\ UNCHANGED <<exists, options, fetchOutcome>>
    /\ UNCHANGED <<raceVars, runVars>>

\* config.ts:195-204
UIProvider == UISet("provider", SelectFrom(<<"openai", "ollama">>))

\* config.ts:205-210
UIApiKey == UISet("OPENAI_API_KEY", {"sk-test"})

\* config.ts:235-240
UIEndpoint == UISet("ollama_endpoint", {"http://localhost:11434"})

\* The catalog outcomes the menu is exercised with.
UICatalogOutcomes ==
    {o \in CatalogOutcomes :
        \/ o.kind \in {"networkError", "notOk"}
        \/ /\ o.kind = "body"
           /\ o.models.kind = "array" /\ o.tags.kind = "undefined"
           /\ Len(o.models.items) <= 1
           /\ \A i \in 1..Len(o.models.items) :
                  o.models.items[i] =
                      [name |-> "n1", model |-> Undef, tag |-> Undef,
                       isNull |-> FALSE]}

\* config.ts:211-234
UIModel ==
    /\ uiPc = "menu"
    /\ uiPc' = "exited"
    /\ IF ValueOf(config, DEFAULT_CONFIG).provider = "openai"
       THEN \E outcome \in UICatalogOutcomes, cloud \in CloudOutcomes :
              LET again == readConfigFile(file, DEFAULT_CONFIG)
                  got == getModels(ValueOf(again, DEFAULT_CONFIG),
                                   outcome, cloud)
              IN  IF got.err # ""
                  THEN /\ lastOp' = Failed("model", got.err, Undef, <<>>)
                       /\ UNCHANGED <<file, DEFAULT_CONFIG, config, options>>
                  ELSE /\ options' = got.list
                       /\ \E model \in SelectFrom(got.list) :
                              SetConfigsEffect("model",
                                               <<Entry("model", model)>>)
       ELSE /\ lastOp' = Op("go_back")
            /\ UNCHANGED <<file, DEFAULT_CONFIG, config, options>>
    /\ UNCHANGED <<exists, fetchOutcome>>
    /\ UNCHANGED <<raceVars, runVars>>

\* config.ts:241-266
UIOllamaModel ==
    /\ uiPc = "menu"
    /\ uiPc' = "exited"
    /\ IF ValueOf(config, DEFAULT_CONFIG).provider = "ollama"
       THEN \E outcome \in UICatalogOutcomes :
              /\ fetchOutcome' = outcome
              /\ options' = getOllamaModels(outcome)
              /\ \E model \in SelectFrom(getOllamaModels(outcome)) :
                     SetConfigsEffect("ollama_model",
                                      <<Entry("ollama_model", model)>>)
       ELSE /\ lastOp' = Op("go_back")
            /\ UNCHANGED <<file, DEFAULT_CONFIG, config, options,
                           fetchOutcome>>
    /\ UNCHANGED exists
    /\ UNCHANGED <<raceVars, runVars>>

\* config.ts:291  config.templates[newTemplateName] = newTemplatePath
Put(templates, name, path) ==
    [n \in DOMAIN templates \cup {name} |->
        IF n = name THEN path ELSE templates[n]]

\* config.ts:280-296.  editFile (config.ts:8-57) returns without calling
\* onExit when no editor is chosen; otherwise onExit persists the templates
\* object of the configuration the menu holds.
UITemplateAdd ==
    /\ uiPc = "menu"
    /\ uiPc' = "exited"
    /\ \E name \in NewTemplateNames, edited \in BOOLEAN :
         LET path == NewTemplatePath(name)
             inDefault == config.kind = "DEFAULT_CONFIG"
                          \/ config.sharesTemplates
             defaults1 ==
                 IF inDefault
                 THEN [DEFAULT_CONFIG EXCEPT
                          !.templates = Put(DEFAULT_CONFIG.templates,
                                            name, path)]
                 ELSE DEFAULT_CONFIG
             held1 ==
                 IF inDefault THEN config
                 ELSE [config EXCEPT
                          !.templates = Put(config.templates, name, path)]
             r == setConfigs(file, defaults1, held1, <<TemplatesOfHeld>>)
         IN  /\ exists' = exists \cup {path}
             /\ IF edited
                THEN /\ file' = r.file
                     /\ DEFAULT_CONFIG' = r.defaults
                     /\ config' = r.held
                     /\ lastOp' = Failed("add_new", r.err, r.key,
                                         <<TemplatesOfHeld>>)
                ELSE /\ DEFAULT_CONFIG' = defaults1
                     /\ config' = held1
                     /\ lastOp' = Op("add_new")
                     /\ UNCHANGED file
    /\ UNCHANGED <<options, fetchOutcome>>
    /\ UNCHANGED <<raceVars, runVars>>

\* config.ts:297-307
UITemplateEdit ==
    /\ uiPc = "menu"
    /\ uiPc' = "exited"
    /\ \E name \in DOMAIN TemplatesOf(config, DEFAULT_CONFIG) :
           exists' = exists \cup {TemplatesOf(config, DEFAULT_CONFIG)[name]}
    /\ lastOp' = Op("edit_template")
    /\ UNCHANGED <<file, DEFAULT_CONFIG, config, options, fetchOutcome>>
    /\ UNCHANGED <<raceVars, runVars>>

\* The process has ended; the next one starts with the module state of
\* config.ts:79-88.
NewProcess ==
    /\ uiPc = "exited"
    /\ uiPc' = "idle"
    /\ DEFAULT_CONFIG' = HardcodedDefaults
    /\ config' = NoConfig
    /\ lastOp' = Op("start")
    /\ options' = <<>>
    /\ fetchOutcome' = NoOutcome
    /\ UNCHANGED <<file, exists>>
    /\ UNCHANGED <<raceVars, runVars>>

Next ==
    \/ Load
    \/ Prune
    \/ SetConfigs
    \/ UIOpen
    \/ UICancel
    \/ UIProvider
    \/ UIApiKey
    \/ UIEndpoint
    \/ UIModel
    \/ UIOllamaModel
    \/ UITemplateAdd
    \/ UITemplateEdit
    \/ NewProcess

Spec == Init /\ [][Next]_vars


(***************************************************************************)
(* Properties of the configuration store (specification Spec).             *)
(***************************************************************************)
\* The fields of a configuration, as the data model lists them.
ConfigFields == {"provider", "OPENAI_API_KEY", "model", "ollama_endpoint",
                 "ollama_model", "templates"}

InvalidAt(kvs) == {i \in 1..Len(kvs) : kvs[i].key \notin ConfigFields}

FirstInvalidKey(kvs) ==
    kvs[CHOOSE i \in InvalidAt(kvs) : \A j \in InvalidAt(kvs) : i <= j].key

\* A step that is a call of the exported setConfigs with an unrecognized key
\* somewhere in its entries.
RejectedCall == lastOp'.op = "setConfigs" /\ InvalidAt(lastOp'.kvs) # {}

NothingApplied ==
    /\ lastOp'.err # ""
    /\ file' = file
    /\ DEFAULT_CONFIG' = DEFAULT_CONFIG
    /\ config' = config

\* C1: the templates map always has the key `default`: the configuration a
\* load returns has it, and so has the templates object of the persisted
\* file, after any sequence of loads, prunes, setConfigs calls and menu
\* sessions.
C1_DefaultAlwaysPresent ==
    /\ (lastOp.op = "readConfigFile" /\ lastOp.err = ""
            => "default" \in DOMAIN TemplatesOf(config, DEFAULT_CONFIG))
    /\ (file.state = "json" /\ file.hasTemplates
            => "default" \in DOMAIN file.templates)

\* C2: a setConfigs call with an unrecognized key anywhere in its entries,
\* whatever the other entries are, always fails, applies no entry to the
\* configuration object and leaves the persisted file as it was; whenever
\* the configuration file can be loaded (it is absent, or it parses) the
\* error is the validation error and names the offending key.
C2_AllOrNothing ==
    [][RejectedCall =>
          /\ NothingApplied
          /\ (file.state # "corrupt" =>
                 /\ lastOp'.err = "Invalid config property"
                 /\ lastOp'.key = FirstInvalidKey(lastOp'.kvs))]_vars

\* C2's case: a valid entry followed by an invalid one was rejected, naming
\* the invalid one, with a file on disk.
C2_Witness ==
    /\ lastOp.op = "setConfigs"
    /\ Len(lastOp.kvs) = 2
    /\ lastOp.kvs[1].key \in ConfigFields
    /\ lastOp.kvs[2].key \notin ConfigFields
    /\ lastOp.err = "Invalid config property"
    /\ lastOp.key = lastOp.kvs[2].key
    /\ file.state = "json"

\* C3: a load with the file absent returns exactly the hardcoded defaults,
\* whatever was done before to the objects earlier loads returned.
C3_AbsentFileGivesDefaults ==
    lastOp.op = "readConfigFile" /\ file.state = "absent"
        => /\ ValueOf(config, DEFAULT_CONFIG) = HardcodedDefaults
           /\ DEFAULT_CONFIG = HardcodedDefaults

\* C7: pruning removes every entry whose file is missing other than
\* `default`, keeps every entry whose file exists, and never removes
\* `default`.
C7_PruneKeepsDefault ==
    [][lastOp'.op = "cleanUpTemplates" =>
          LET before == TemplatesOf(config, DEFAULT_CONFIG)
              after == TemplatesOf(config', DEFAULT_CONFIG')
          IN  /\ DOMAIN after =
                    {n \in DOMAIN before :
                        before[n] \in exists \/ n = "default"}
              /\ \A n \in DOMAIN after : after[n] = before[n]]_vars

\* C9: the option list shown for the local-model selection is never empty.
C9_LocalOptionsNonEmpty ==
    lastOp.op = "ollama_model" => Len(options) > 0


(***************************************************************************)
(* Specification SpecCatalog: the local catalog listing on every outcome   *)
(* of the endpoint.                                                        *)
(***************************************************************************)
CfgIdle ==
    /\ file = AbsentFile
    /\ exists = {}
    /\ DEFAULT_CONFIG = HardcodedDefaults
    /\ config = NoConfig
    /\ uiPc = "idle"

CatalogInit ==
    /\ CfgIdle
    /\ lastOp = Op("start")
    /\ options = <<>>
    /\ fetchOutcome \in CatalogOutcomes
    /\ RaceIdle
    /\ RunIdle

\* config.ts:321-342 called on the endpoint's outcome.
CallGetOllamaModels ==
    /\ lastOp.op = "start"
    /\ options' = getOllamaModels(fetchOutcome)
    /\ lastOp' = Op("getOllamaModels")
    /\ UNCHANGED <<file, exists, DEFAULT_CONFIG, config, uiPc, fetchOutcome>>
    /\ UNCHANGED <<raceVars, runVars>>

\* llama.ts:24-31: the script calls main and prints the list.
CallLlamaMain ==
    /\ lastOp.op = "start"
    /\ options' = main(fetchOutcome)
    /\ lastOp' = Op("main")
    /\ UNCHANGED <<file, exists, DEFAULT_CONFIG, config, uiPc, fetchOutcome>>
    /\ UNCHANGED <<raceVars, runVars>>

CatalogNext == CallGetOllamaModels \/ CallLlamaMain

SpecCatalog == CatalogInit /\ [][CatalogNext]_vars

\* What the listing is to return, entry by entry.
NonEmpty(v) == v # Undef /\ v # ""

Pick(entry, fallback) ==
    IF NonEmpty(entry.name) THEN entry.name
    ELSE IF NonEmpty(entry[fallback]) THEN entry[fallback]
    ELSE ""

RECURSIVE Normalized(_, _)
Normalized(items, fallback) ==
    IF items = <<>> THEN <<>>
    ELSE LET first == Pick(Head(items), fallback)
         IN  (IF first = "" THEN <<>> ELSE <<first>>)
             \o Normalized(Tail(items), fallback)

WellShaped(items) == \A i \in 1..Len(items) : ~items[i].isNull

ExpectedModels(outcome) ==
    IF outcome.kind # "body" THEN <<>>
    ELSE IF outcome.models.kind = "array"
         THEN IF WellShaped(outcome.models.items)
              THEN Normalized(outcome.models.items, "model") ELSE <<>>
    ELSE IF outcome.tags.kind = "array"
         THEN IF WellShaped(outcome.tags.items)
              THEN Normalized(outcome.tags.items, "tag") ELSE <<>>
    ELSE <<>>

\* C10: the listing never throws and returns a list: the empty list on a
\* network error, a non-2xx status or an unexpected payload; for a `models`
\* array each entry's name, falling back to model, in order; otherwise for a
\* `tags` array each entry's name, falling back to tag; entries that
\* normalize to the empty string are dropped; the empty list when both
\* arrays are absent.
C10_ListingNormalizes ==
    lastOp.op \in {"getOllamaModels", "main"}
        => /\ options = ExpectedModels(fetchOutcome)
           /\ \A i \in 1..Len(options) : NonEmpty(options[i])

\* C10's case: a models array whose first entry has both a name and a model
\* and whose second entry has only an empty name, with a tags array present
\* as well: the name wins, the empty entry is dropped, the tags are not read.
C10_Witness ==
    /\ lastOp.op = "getOllamaModels"
    /\ fetchOutcome.kind = "body"
    /\ fetchOutcome.models.kind = "array"
    /\ Len(fetchOutcome.models.items) = 2
    /\ fetchOutcome.models.items[1].name = "n1"
    /\ fetchOutcome.models.items[1].model = "m1"
    /\ fetchOutcome.models.items[2].name = ""
    /\ fetchOutcome.models.items[2].model = Undef
    /\ ~fetchOutcome.models.items[2].isNull
    /\ fetchOutcome.tags.kind = "array"
    /\ options = <<"n1">>

(***************************************************************************)
(* Specification SpecRace: two processes call setConfigs at the same time. *)
(* Each process has its own DEFAULT_CONFIG, still as hardcoded.  setConfigs *)
(* awaits the load (config.ts:129) and later the write (config.ts:138);    *)
(* validation, the assignments and JSON.stringify run without an await in  *)
(* between.                                                                *)
(***************************************************************************)
Procs == {1, 2}

Other(p) == 3 - p

\* The entries the two invocations set: different fields.
RacePool(p) ==
    IF p = 1
    THEN {Entry("provider", "ollama"), Entry("model", "gpt-4o"),
          Entry("bogus", "x")}
    ELSE {Entry("OPENAI_API_KEY", "sk-test"),
          Entry("ollama_model", "llama3")}

RaceInit ==
    /\ file \in InitialFiles
    /\ exists = {}
    /\ DEFAULT_CONFIG = HardcodedDefaults
    /\ config = NoConfig
    /\ uiPc = "idle"
    /\ lastOp = Op("start")
    /\ options = <<>>
    /\ fetchOutcome = NoOutcome
    /\ racePc = <<"start", "start">>
    /\ raceConfig = <<NotLoaded, NotLoaded>>
    /\ \E kvs1 \in SeqsUpTo(RacePool(1), MaxKeyValues) \ {<<>>},
          kvs2 \in SeqsUpTo(RacePool(2), MaxKeyValues) \ {<<>>} :
           raceKvs = <<kvs1, kvs2>>
    /\ lastWrite = [by |-> 0, obj |-> HardcodedDefaults]
    /\ RunIdle

\* config.ts:129: the load, whose result the invocation keeps.
RaceRead(p) ==
    /\ racePc[p] = "start"
    /\ IF file.state = "corrupt"
       THEN /\ racePc' = [racePc EXCEPT ![p] = "failed"]
            /\ UNCHANGED raceConfig
       ELSE /\ racePc' = [racePc EXCEPT ![p] = "read"]
            /\ raceConfig' =
                 [raceConfig EXCEPT ![p] =
                     [obj |-> ValueOf(readConfigFile(file, HardcodedDefaults),
                                      HardcodedDefaults),
                      after |-> lastWrite.by]]
    /\ UNCHANGED <<raceKvs, lastWrite>>
    /\ UNCHANGED <<cfgVars, runVars>>

\* A faulty variant: only the entries of the call are merged into the file
\* as it is now (a partial-field write).
WrittenObjectMerged(loaded, current, kvs) ==
    AssignAll(IF current.state = "json"
              THEN Merge(HardcodedDefaults, current) ELSE loaded,
              kvs, loaded.templates)

\* config.ts:133-138: the object persisted is the one loaded at line 129
\* with the entries assigned; the file as it is now is not looked at.
WrittenObject(loaded, current, kvs) ==
    AssignAll(loaded, kvs, loaded.templates)

\* config.ts:131-138
RaceWrite(p) ==
    /\ racePc[p] = "read"
    /\ IF validateKeys(Keys(raceKvs[p])).ok
       THEN LET obj == WrittenObject(raceConfig[p].obj, file, raceKvs[p])
            IN  /\ file' = Stringify(obj)
                /\ lastWrite' = [by |-> p, obj |-> obj]
                /\ racePc' = [racePc EXCEPT ![p] = "done"]
       ELSE /\ racePc' = [racePc EXCEPT ![p] = "failed"]
            /\ UNCHANGED <<file, lastWrite>>
    /\ UNCHANGED <<raceConfig, raceKvs>>
    /\ UNCHANGED <<exists, DEFAULT_CONFIG, config, uiPc, lastOp, options,
                   fetchOutcome>>
    /\ UNCHANGED runVars

RaceNext == \E p \in Procs : RaceRead(p) \/ RaceWrite(p)

SpecRace == RaceInit /\ [][RaceNext]_vars

RaceOver == \A p \in Procs : racePc[p] \in {"done", "failed"}

\* The object invocation p loaded, with p's entries assigned and nothing
\* else.
WholeObjectOf(p) ==
    [k \in ConfigFields |->
        IF \E i \in 1..Len(raceKvs[p]) : raceKvs[p][i].key = k
        THEN LET at == {i \in 1..Len(raceKvs[p]) : raceKvs[p][i].key = k}
             IN  raceKvs[p][CHOOSE i \in at : \A j \in at : j <= i].value
        ELSE raceConfig[p].obj[k]]

\* C6: last write wins.  Once both invocations are over, the file is the
\* whole object of the invocation that wrote last: what it loaded plus its
\* own entries; and when both loaded before either wrote, every field the
\* other invocation set is back at the value that was loaded.
C6_LastWriteWins ==
    RaceOver /\ lastWrite.by # 0
        => LET w == lastWrite.by
               l == Other(w)
           IN  /\ file = Stringify(WholeObjectOf(w))
               /\ (racePc[l] = "done" /\ raceConfig[w].after = 0
                     => \A i \in 1..Len(raceKvs[l]) :
                           file.fields[raceKvs[l][i].key]
                               = raceConfig[w].obj[raceKvs[l][i].key])

\* C6's case: both invocations loaded before either wrote, both wrote, and
\* a field the first writer set is not in the final file.
C6_Witness ==
    /\ racePc = <<"done", "done">>
    /\ raceConfig[1].after = 0 /\ raceConfig[2].after = 0
    /\ \E i \in 1..Len(raceKvs[Other(lastWrite.by)]) :
           file.fields[raceKvs[Other(lastWrite.by)][i].key]
               # raceKvs[Other(lastWrite.by)][i].value


(***************************************************************************)
(* Specification SpecRun: one run of the generator, run.ts:23-170.         *)
(*                                                                         *)
(* console.log and console.debug write to standard output, console.error   *)
(* to standard error.  process.exit(1) ends the process at once.  A        *)
(* rejection that run() does not catch leaves it through the caller        *)
(* (pc = "threw"); run() returning ends the process with exit code 0.      *)
(***************************************************************************)
Debug(label) == [via |-> "debug", label |-> label, text |-> <<>>]

DebugText(label, text) == [via |-> "debug", label |-> label, text |-> text]

Log(text) == [via |-> "log", label |-> "", text |-> text]

\* if (options.verbose) console.debug(...)
Verbose(out, lines) == IF opts.verbose THEN out \o lines ELSE out

\* The configuration files a run is started with.
RunFiles ==
    {AbsentFile, CorruptFile} \cup
    {JsonFile(f, t[1], t[2]) :
        f \in [provider : {Undef, "ollama"},
               OPENAI_API_KEY : {Undef, "sk-test"},
               model : {Undef, ""},
               ollama_endpoint : {Undef},
               ollama_model : {Undef}],
        t \in {<<FALSE, <<>>>>,
               <<TRUE, [n \in {"default", "feat"} |->
                          IF n = "default" THEN DefaultTemplatePath
                          ELSE NewTemplatePath(n)]>>,
               <<TRUE, [n \in {"feat"} |-> NewTemplatePath(n)]>>}}

\* The texts a template file holds.
RunTemplates == {<<"m", ":">> \o Token, <<"m">>}

\* What git diff --cached produces: an error, or the diff.
RunDiffs == SeqsUpTo({" ", "a", "$"}, MaxRunDiffLen)

\* What a chat call produces: a rejection, a reply without message (ollama)
\* or without choices (openai), a reply whose content is null, or a reply
\* with a content string.
ChatOutcomes ==
    {[kind |-> k, content |-> <<>>] : k \in {"error", "malformed", "null"}}
    \cup {[kind |-> "content", content |-> c] :
            c \in {<<>>, <<" ">>, <<" ", "f", "\n">>}}

RunInit ==
    /\ file \in RunFiles
    /\ exists \in SUBSET {DefaultTemplatePath, NewTemplatePath("feat")}
    /\ DEFAULT_CONFIG = HardcodedDefaults
    /\ config = NoConfig
    /\ uiPc = "idle"
    /\ lastOp = Op("start")
    /\ options = <<>>
    /\ fetchOutcome = NoOutcome
    /\ RaceIdle
    /\ pc = "start"
    /\ opts \in [verbose : BOOLEAN, templateName : {"", "feat", "nope"}]
    /\ templateFilePath = Undef
    /\ template = NotYet
    /\ diff = NotYet
    /\ rendered_template = NotYet
    /\ response = NoResponse
    /\ stdout = <<>>
    /\ stderr = <<>>
    /\ exitCode = -1
    /\ providerCalls = <<>>

\* console.error(message); process.exit(1)
Fatal(message) ==
    /\ stderr' = Append(stderr, message)
    /\ pc' = "exited"
    /\ exitCode' = 1

Cfg == ValueOf(config, DEFAULT_CONFIG)

\* run.ts:24-27
RunLoadConfig ==
    /\ pc = "start"
    /\ IF file.state = "corrupt"
       THEN /\ pc' = "threw"
            /\ UNCHANGED <<config, stdout>>
       ELSE /\ config' = readConfigFile(file, DEFAULT_CONFIG)
            /\ stdout' = Verbose(stdout,
                            <<Debug("Configuration loaded successfully.")>>)
            /\ pc' = "resolve"
    /\ UNCHANGED <<file, exists, DEFAULT_CONFIG, uiPc, lastOp, options,
                   fetchOutcome>>
    /\ UNCHANGED <<opts, templateFilePath, template, diff, rendered_template,
                   response, stderr, exitCode, providerCalls>>
    /\ UNCHANGED raceVars

\* run.ts:29-51.  An empty templateName is falsy: the default entry is used,
\* and config.templates.default is undefined when the map has no such key.
RunResolveTemplate ==
    /\ pc = "resolve"
    /\ IF opts.templateName # ""
       THEN IF opts.templateName \notin DOMAIN Cfg.templates
            THEN /\ Fatal("Template does not exist in the configuration")
                 /\ UNCHANGED <<templateFilePath, stdout>>
            ELSE /\ templateFilePath' = Cfg.templates[opts.templateName]
                 /\ stdout' = Verbose(stdout, <<Debug("Using template")>>)
                 /\ pc' = "checkFile"
                 /\ UNCHANGED <<stderr, exitCode>>
       ELSE /\ templateFilePath' =
                  IF "default" \in DOMAIN Cfg.templates
                  THEN Cfg.templates["default"] ELSE Undef
            /\ stdout' = Verbose(stdout, <<Debug("Using default template.")>>)
            /\ pc' = "checkFile"
            /\ UNCHANGED <<stderr, exitCode>>
    /\ UNCHANGED cfgVars
    /\ UNCHANGED <<opts, template, diff, rendered_template, response,
                   providerCalls>>
    /\ UNCHANGED raceVars

\* run.ts:53-72.  What Bun.file(undefined) does is the runtime's business:
\* it throws, or the file is reported missing.
RunReadTemplate ==
    /\ pc = "checkFile"
    /\ \/ /\ templateFilePath = Undef
          /\ pc' = "threw"
          /\ UNCHANGED <<template, stdout, stderr, exitCode>>
       \/ /\ templateFilePath \notin exists
          /\ Fatal("The template file does not exist")
          /\ UNCHANGED <<template, stdout>>
       \/ /\ templateFilePath \in exists
          /\ \E text \in RunTemplates : template' = text
          /\ stdout' = Verbose(stdout,
                          <<Debug("Template file found"),
                            Debug("Template file read successfully."),
                            Debug("Target directory")>>)
          /\ pc' = "diff"
          /\ UNCHANGED <<stderr, exitCode>>
    /\ UNCHANGED cfgVars
    /\ UNCHANGED <<opts, templateFilePath, diff, rendered_template, response,
                   providerCalls>>
    /\ UNCHANGED raceVars

\* String.prototype.trim().length === 0
Blank(text) == Len(Trim(text)) = 0

\* run.ts:74-82 with getStagedDiff, run.ts:11-21, which logs and rethrows.
RunGetStagedDiff ==
    /\ pc = "diff"
    /\ \/ /\ stderr' = Append(stderr, "Error getting git diff")
          /\ pc' = "threw"
          /\ UNCHANGED <<diff, stdout, exitCode>>
       \/ \E d \in RunDiffs :
            /\ diff' = d
            /\ stdout' = Verbose(stdout,
                            <<DebugText("Git diff retrieved", d)>>)
            /\ IF Blank(d)
               THEN Fatal("No changes to commit")
               ELSE /\ pc' = "render"
                    /\ UNCHANGED <<stderr, exitCode>>
    /\ UNCHANGED cfgVars
    /\ UNCHANGED <<opts, templateFilePath, template, rendered_template,
                   response, providerCalls>>
    /\ UNCHANGED raceVars

\* run.ts:84-87
RunRender ==
    /\ pc = "render"
    /\ rendered_template' = RenderTemplate(template, diff)
    /\ stdout' = Verbose(stdout, <<Debug("Template rendered with git diff.")>>)
    /\ pc' = "dispatch"
    /\ UNCHANGED cfgVars
    /\ UNCHANGED <<opts, templateFilePath, template, diff, response, stderr,
                   exitCode, providerCalls>>
    /\ UNCHANGED raceVars

\* A faulty variant: the content is printed before it is tested.
HandleReplyPrintFirst(provider, reply) ==
    IF reply.kind = "error"
    THEN [err |-> "Failed to fetch", received |-> FALSE, printed |-> FALSE,
          text |-> <<>>]
    ELSE IF reply.kind = "malformed" /\ provider = "openai"
    THEN [err |-> "Failed to fetch", received |-> TRUE, printed |-> FALSE,
          text |-> <<>>]
    ELSE IF reply.kind # "content"
    THEN [err |-> "Failed to generate commit message", received |-> TRUE,
          printed |-> FALSE, text |-> <<>>]
    ELSE [err |-> IF reply.content = <<>>
                  THEN "Failed to generate commit message" ELSE "",
          received |-> TRUE, printed |-> TRUE, text |-> Trim(reply.content)]

\* run.ts:102-115 and run.ts:156-169: what is done with the outcome of a
\* chat call.  A rejection lands in the catch, and so does, with openai, the
\* TypeError of reading choices[0].message of a reply without choices; a
\* missing, null or empty content is refused; any other content is printed,
\* trimmed.  received: the call returned a reply.
HandleReply(provider, reply) ==
    IF reply.kind = "error"
    THEN [err |-> "Failed to fetch", received |-> FALSE, printed |-> FALSE,
          text |-> <<>>]
    ELSE IF reply.kind = "malformed" /\ provider = "openai"
    THEN [err |-> "Failed to fetch", received |-> TRUE, printed |-> FALSE,
          text |-> <<>>]
    ELSE IF reply.kind # "content" \/ reply.content = <<>>
    THEN [err |-> "Failed to generate commit message", received |-> TRUE,
          printed |-> FALSE, text |-> <<>>]
    ELSE [err |-> "", received |-> TRUE, printed |-> TRUE,
          text |-> Trim(reply.content)]

\* The chat call and what follows it: the debug lines before the call, those
\* on a reply, the message, and the debug line after it.
Chat(provider, model, before, onReply, after) ==
    /\ providerCalls' =
          Append(providerCalls,
                 [provider |-> provider, model |-> model,
                  prompt |-> rendered_template])
    /\ \E reply \in ChatOutcomes :
         LET r == HandleReply(provider, reply)
         IN  /\ response' = reply
             /\ stdout' =
                  Verbose(Verbose(stdout,
                                  before \o (IF r.received THEN onReply
                                             ELSE <<>>))
                            \o (IF r.printed THEN <<Log(r.text)>> ELSE <<>>),
                          IF r.err = "" THEN after ELSE <<>>)
             /\ IF r.err # ""
                THEN Fatal(r.err)
                ELSE /\ pc' = "returned"
                     /\ exitCode' = 0
                     /\ UNCHANGED stderr

\* run.ts:89-116
RunOllama ==
    /\ pc = "dispatch"
    /\ Cfg.provider = "ollama"
    /\ Chat("ollama", Or(Cfg.ollama_model, "llama3"),
            <<Debug("Sending request to Ollama")>>,
            <<>>,
            <<Debug("Commit message generated and outputted.")>>)
    /\ UNCHANGED cfgVars
    /\ UNCHANGED <<opts, templateFilePath, template, diff, rendered_template>>
    /\ UNCHANGED raceVars

\* A faulty variant: the model is not checked.
CredentialErrorKeyOnly(cfg) ==
    IF ~Truthy(cfg.OPENAI_API_KEY) THEN "OPENAI_API_KEY is not set" ELSE ""

\* run.ts:118-126: the message of the check that fails, "" when both pass.
CredentialError(cfg) ==
    IF ~Truthy(cfg.OPENAI_API_KEY) THEN "OPENAI_API_KEY is not set"
    ELSE IF ~Truthy(cfg.model) THEN "Model is not set"
    ELSE ""

\* run.ts:118-130
RunCheckCredentials ==
    /\ pc = "dispatch"
    /\ Cfg.provider # "ollama"
    /\ IF CredentialError(Cfg) # ""
       THEN Fatal(CredentialError(Cfg))
       ELSE /\ pc' = "openai"
            /\ UNCHANGED <<stderr, exitCode>>
    /\ UNCHANGED cfgVars
    /\ UNCHANGED <<opts, templateFilePath, template, diff, rendered_template,
                   response, stdout, providerCalls>>
    /\ UNCHANGED raceVars

\* run.ts:132-169
RunOpenAI ==
    /\ pc = "openai"
    /\ Chat("openai", Cfg.model,
            <<Debug("Sending request to OpenAI...")>>,
            <<Debug("Response received from OpenAI."),
              DebugText("response", response'.content)>>,
            <<Debug("Commit message generated and outputted.")>>)
    /\ UNCHANGED cfgVars
    /\ UNCHANGED <<opts, templateFilePath, template, diff, rendered_template>>
    /\ UNCHANGED raceVars

RunNext ==
    \/ RunLoadConfig
    \/ RunResolveTemplate
    \/ RunReadTemplate
    \/ RunGetStagedDiff
    \/ RunRender
    \/ RunOllama
    \/ RunCheckCredentials
    \/ RunOpenAI

SpecRun == RunInit /\ [][RunNext]_vars


(***************************************************************************)
(* Properties of a run.                                                    *)
(***************************************************************************)
\* The process has ended by process.exit or by run() returning.
Ended == pc \in {"exited", "returned"}

\* A commit message was written to standard output.
MessagePrinted == \E i \in DOMAIN stdout : stdout[i].via = "log"

Loaded == config # NoConfig

UnknownTemplate ==
    /\ Loaded /\ pc # "resolve"
    /\ opts.templateName # "" /\ opts.templateName \notin DOMAIN Cfg.templates

MissingTemplateFile ==
    /\ pc \notin {"start", "resolve", "checkFile", "threw"}
    /\ templateFilePath # Undef /\ templateFilePath \notin exists

EmptyDiff == diff # NotYet /\ Blank(diff)

\* The run went past the staged diff and past the dispatch on the provider.
PastDispatch == rendered_template # NotYet /\ pc # "dispatch"

Cloud == Loaded /\ Cfg.provider # "ollama"

MissingCredential ==
    Cloud /\ PastDispatch
    /\ (~Truthy(Cfg.OPENAI_API_KEY) \/ ~Truthy(Cfg.model))

\* No content in what the provider answered, or no answer.
NoContent ==
    /\ response # NoResponse
    /\ response.kind # "content" \/ response.content = <<>>

FatalCondition ==
    \/ UnknownTemplate
    \/ MissingTemplateFile
    \/ EmptyDiff
    \/ MissingCredential
    \/ NoContent

\* C4 as stated: the commit message is on standard output if and only if
\* the run ends with exit code 0, and every fatal condition ends the run
\* with exit code 1 and with nothing at all on standard output.
C4_NothingOnStdoutWhenFatal ==
    /\ Ended => (MessagePrinted <=> exitCode = 0)
    /\ FatalCondition => pc = "exited" /\ exitCode = 1 /\ stdout = <<>>

\* C4 amended: the commit message is on standard output if and only if the
\* run ends with exit code 0, and then it is the trimmed content of the
\* reply; every fatal condition ends the run with exit code 1 and without
\* a commit message on standard output; what a fatal run has written to
\* standard output is the debug lines of a verbose run, and nothing when the
\* run is not verbose.
C4_MessageOnlyOnSuccess ==
    /\ MessagePrinted <=> (Ended /\ exitCode = 0)
    /\ MessagePrinted =>
          /\ response.kind = "content"
          /\ \E i \in DOMAIN stdout : stdout[i] = Log(Trim(response.content))
    /\ FatalCondition => pc = "exited" /\ exitCode = 1 /\ ~MessagePrinted
    /\ pc = "exited" =>
          /\ exitCode = 1
          /\ Len(stderr) = 1
          /\ \A i \in DOMAIN stdout : stdout[i].via = "debug"
          /\ ~opts.verbose => stdout = <<>>

\* A verbose run that the provider answered with an empty content.
C4_Witness ==
    /\ pc = "exited" /\ opts.verbose
    /\ response.kind = "content" /\ response.content = <<>>
    /\ stdout # <<>>

\* C5: a provider call is made only when every precondition passed.  A
\* blank staged diff ends the run with exit code 1 and without a provider
\* call, whatever the provider.  With the cloud provider and an empty API
\* key, or an empty model, no call is ever made and the run never succeeds;
\* the run that reaches the check of the credentials exits with code 1 and
\* with the message of the check that failed, one for the key and another
\* for the model.
C5_CallOnlyAfterPreconditions ==
    /\ EmptyDiff => pc = "exited" /\ exitCode = 1 /\ providerCalls = <<>>
    /\ Cloud /\ ~Truthy(Cfg.OPENAI_API_KEY) =>
          /\ providerCalls = <<>> /\ exitCode # 0
          /\ PastDispatch => /\ pc = "exited" /\ exitCode = 1
                             /\ stderr = <<"OPENAI_API_KEY is not set">>
    /\ Cloud /\ Truthy(Cfg.OPENAI_API_KEY) /\ ~Truthy(Cfg.model) =>
          /\ providerCalls = <<>> /\ exitCode # 0
          /\ PastDispatch => /\ pc = "exited" /\ exitCode = 1
                             /\ stderr = <<"Model is not set">>
    /\ providerCalls # <<>> =>
          /\ Len(providerCalls) = 1
          /\ template # NotYet /\ diff # NotYet /\ ~Blank(diff)
          /\ providerCalls[1].prompt = rendered_template
          /\ \/ Cfg.provider = "ollama"
             \/ Truthy(Cfg.OPENAI_API_KEY) /\ Truthy(Cfg.model)

\* The API key is set, the model is empty, the diff is not blank, and the
\* run has ended at the check of the model.
C5_Witness ==
    /\ pc = "exited" /\ Cloud /\ PastDispatch
    /\ Truthy(Cfg.OPENAI_API_KEY) /\ ~Truthy(Cfg.model)
    /\ providerCalls = <<>>


(***************************************************************************)
(* Specification SpecRender: the rendering step of run(), run.ts:84-87,    *)
(* on every template text and diff text of the bounds.                     *)
(***************************************************************************)
RECURSIVE Concat(_)
Concat(pieces) ==
    IF pieces = <<>> THEN <<>> ELSE Head(pieces) \o Concat(Tail(pieces))

\* Template texts: up to MaxPieces pieces, each the placeholder, a letter or
\* an opening brace.
RenderTemplates ==
    {Concat(ps) : ps \in SeqsUpTo({Token, <<"a">>, <<"{">>}, MaxPieces)}

\* Diff texts, with the characters String.prototype.replace gives a meaning
\* to in a replacement text.
RenderDiffs == SeqsUpTo({"a", "$", "&", Backtick, Apostrophe}, MaxDiffLen)

RenderInit ==
    /\ CfgIdle
    /\ lastOp = Op("start")
    /\ options = <<>>
    /\ fetchOutcome = NoOutcome
    /\ RaceIdle
    /\ pc = "render"
    /\ opts \in [verbose : BOOLEAN, templateName : {""}]
    /\ templateFilePath = DefaultTemplatePath
    /\ template \in RenderTemplates
    /\ diff \in {d \in RenderDiffs : ~Blank(d)}
    /\ rendered_template = NotYet
    /\ response = NoResponse
    /\ stdout = <<>>
    /\ stderr = <<>>
    /\ exitCode = -1
    /\ providerCalls = <<>>

RenderNext == RunRender

SpecRender == RenderInit /\ [][RenderNext]_vars

\* The text with the first occurrence of the placeholder replaced by the
\* diff as it is; the text itself when the placeholder does not occur.
VerbatimFirst(text, d) ==
    LET pos == IndexOf(text, Token)
    IN  IF pos = 0 THEN text
        ELSE SubSeq(text, 1, pos - 1) \o d
             \o SubSeq(text, pos + Len(Token), Len(text))

\* C8: the rendered prompt is the template with the first occurrence of the
\* placeholder replaced by the diff text verbatim, whatever characters the
\* diff holds, later occurrences left as they are; a template without the
\* placeholder renders to itself.
C8_VerbatimFirstOccurrence ==
    rendered_template # NotYet
        => rendered_template = VerbatimFirst(template, diff)


====
